---- MODULE Spec2Model ----
(***************************************************************************)
(* Model of chunkle.chunk (src/chunkle/__init__.py): a single-pass scanner *)
(* that splits a text into chunks at safe boundaries.  One behaviour is    *)
(* one call of chunk(content, lines_per_chunk, tokens_per_chunk, encoding) *)
(* whose generator is pulled to exhaustion.  A text is a sequence of       *)
(* one-character strings; a chunk is such a sequence too.                  *)
(***************************************************************************)
EXTENDS Integers, Sequences, FiniteSets, TLC

VARIABLES content, lines_per_chunk, tokens_per_chunk, enc,
          buf, line_count, token_count, prev_chunk, i, pc, out, encCalls

vars == <<content, lines_per_chunk, tokens_per_chunk, enc,
          buf, line_count, token_count, prev_chunk, i, pc, out, encCalls>>

(* ------------------------------ bounds --------------------------------- *)

MaxLen == 5
MaxLines == 2
MaxTokens == 3
ShortLen == 4
LiveLen == 3
MaxNegative == 1

\* the lowest threshold tried; chunk() accepts any integer
MinThreshold == 0 - MaxNegative

(* ---------------------------- characters ------------------------------- *)

\* The characters the inputs are drawn from: a letter, the newline, another
\* whitespace character, a member of YIELD_LATER_CHARS, and the ASCII period
\* (punctuation that is not a member of YIELD_LATER_CHARS).
Chars == {"a", "\n", " ", "!", "."}

\* YIELD_LATER_CHARS = set("。？！!?;；:：,，、…"); the half-width members
\* are listed, the full-width ones are written by name.  "." is not a member.
YIELD_LATER_CHARS ==
    {"!", "?", ";", ":", ",",
     "IDEOGRAPHIC FULL STOP", "FULLWIDTH QUESTION MARK",
     "FULLWIDTH EXCLAMATION MARK", "FULLWIDTH SEMICOLON", "FULLWIDTH COLON",
     "FULLWIDTH COMMA", "IDEOGRAPHIC COMMA", "HORIZONTAL ELLIPSIS"}

\* str.isspace() on the characters of Chars.
IsSpace(c) == c \in {"\n", " "}

\* unicodedata.category(ch).startswith("P") on the characters of Chars and
\* of YIELD_LATER_CHARS (all of them are category Po).
IsUnicodePunct(c) == c \in YIELD_LATER_CHARS \cup {"."}

\* tests/test_chunk.py _is_meaningful_char
IsMeaningfulChar(c) == IF IsSpace(c) THEN FALSE ELSE ~IsUnicodePunct(c)

\* "A meaning character is anything that is not whitespace and not in
\* YIELD_LATER_CHARS" (docstring, lines 30-32).
IsMeaning(c) == ~IsSpace(c) /\ c \notin YIELD_LATER_CHARS

\* line 108: the test that lets a completed chunk absorb ch
Absorbable_SpaceOnly(c) == IsSpace(c)

Absorbable(c) == IsSpace(c) \/ c \in YIELD_LATER_CHARS

\* The injected encodings: len(enc.encode(ch)) for each character.  Under the
\* second one the letter encodes to two tokens.
Encodings ==
    { [c \in Chars |-> 1],
      [c \in Chars |-> IF c = "a" THEN 2 ELSE 1] }

(* ------------------------------ helpers -------------------------------- *)

None == <<>>
Some(s) == <<s>>

\* "".join(chunks)
RECURSIVE Join(_)
Join(ss) == IF ss = <<>> THEN <<>> ELSE Head(ss) \o Join(Tail(ss))

\* c.count("\n")
RECURSIVE CountNL(_)
CountNL(s) ==
    IF s = <<>> THEN 0
    ELSE (IF Head(s) = "\n" THEN 1 ELSE 0) + CountNL(Tail(s))

\* sum of len(enc.encode(ch)) over the characters of s
RECURSIVE TokenSum(_)
TokenSum(s) == IF s = <<>> THEN 0 ELSE enc[Head(s)] + TokenSum(Tail(s))

RECURSIVE SeqsUpTo(_)
SeqsUpTo(k) ==
    IF k = 0 THEN {<<>>}
    ELSE LET shorter == SeqsUpTo(k - 1)
         IN  shorter \cup {Append(s, c) : s \in {t \in shorter : Len(t) = k - 1}, c \in Chars}

n == Len(content)

\* content[i], with Python's 0-based index
ch == content[i + 1]

(* ------------------------------- state --------------------------------- *)

Init ==
    /\ content \in SeqsUpTo(MaxLen)
    /\ lines_per_chunk \in 0..MaxLines
    /\ tokens_per_chunk \in 0..MaxTokens
    /\ enc \in Encodings
    /\ buf = <<>>
    /\ line_count = 0
    /\ token_count = 0
    /\ prev_chunk = None
    /\ i = 0
    /\ pc = "start"
    /\ out = <<>>
    /\ encCalls = 0

\* _flush_current(): the values of (buf, line_count, token_count, prev_chunk)
\* after the call.
FlushCurrent_KeepsTokens(b, lc, tc, pv) ==
    IF b # <<>>
    THEN [buf |-> <<>>, line_count |-> 0, token_count |-> tc, prev_chunk |-> Some(b)]
    ELSE [buf |-> b, line_count |-> lc, token_count |-> tc, prev_chunk |-> pv]

FlushCurrent(b, lc, tc, pv) ==
    IF b # <<>>
    THEN [buf |-> <<>>, line_count |-> 0, token_count |-> 0, prev_chunk |-> Some(b)]
    ELSE [buf |-> b, line_count |-> lc, token_count |-> tc, prev_chunk |-> pv]

\* line 129-130: both thresholds met and ch is a safe break-point
ReadyToBreak_Strict(lc, tc, c) ==
    /\ lc > lines_per_chunk
    /\ tc > tokens_per_chunk
    /\ (c = "\n" \/ c \in YIELD_LATER_CHARS)

ReadyToBreak_Either(lc, tc, c) ==
    /\ (lc >= lines_per_chunk \/ tc >= tokens_per_chunk)
    /\ (c = "\n" \/ c \in YIELD_LATER_CHARS)

ReadyToBreak_AnyChar(lc, tc, c) ==
    /\ lc >= lines_per_chunk
    /\ tc >= tokens_per_chunk

ReadyToBreak(lc, tc, c) ==
    /\ lc >= lines_per_chunk
    /\ tc >= tokens_per_chunk
    /\ (c = "\n" \/ c \in YIELD_LATER_CHARS)

\* line 117: ch is the second newline of a blank line
IsParagraphBreak_AnyNewline(c, idx) == c = "\n" /\ idx > 0

IsParagraphBreak(c, idx) == c = "\n" /\ idx > 0 /\ content[idx] = "\n"

\* First pull: "if not content: return", otherwise enter the while loop.
Begin_YieldsContent ==
    /\ pc = "start"
    /\ IF content = <<>>
       THEN /\ pc' = "done"
            /\ out' = Append(out, content)
       ELSE /\ pc' = "scan"
            /\ out' = out
    /\ UNCHANGED <<content, lines_per_chunk, tokens_per_chunk, enc,
                   buf, line_count, token_count, prev_chunk, i, encCalls>>

Begin ==
    /\ pc = "start"
    /\ pc' = IF content = <<>> THEN "done" ELSE "scan"
    /\ UNCHANGED <<content, lines_per_chunk, tokens_per_chunk, enc,
                   buf, line_count, token_count, prev_chunk, i, out, encCalls>>

\* At the top of the loop body with a completed chunk waiting (line 107).
AtPending == pc = "scan" /\ i < n /\ prev_chunk # None /\ buf = <<>>

\* At line 116, either straight from the top of the loop body or after the
\* yield on line 113.
AtBody ==
    \/ pc = "resume"
    \/ pc = "scan" /\ i < n /\ ~(prev_chunk # None /\ buf = <<>>)

\* lines 108-111: a NOT-meaning character joins the completed chunk
Absorb_CallsEncoder ==
    /\ AtPending
    /\ Absorbable(ch)
    /\ prev_chunk' = Some(Append(prev_chunk[1], ch))
    /\ encCalls' = encCalls + 1
    /\ i' = i + 1
    /\ UNCHANGED <<content, lines_per_chunk, tokens_per_chunk, enc,
                   buf, line_count, token_count, pc, out>>

Absorb_CountsLine ==
    /\ AtPending
    /\ Absorbable(ch)
    /\ prev_chunk' = Some(Append(prev_chunk[1], ch))
    /\ line_count' = IF ch = "\n" THEN line_count + 1 ELSE line_count
    /\ i' = i + 1
    /\ UNCHANGED <<content, lines_per_chunk, tokens_per_chunk, enc,
                   buf, token_count, pc, out, encCalls>>

Absorb ==
    /\ AtPending
    /\ Absorbable(ch)
    /\ prev_chunk' = Some(Append(prev_chunk[1], ch))
    /\ i' = i + 1
    /\ UNCHANGED <<content, lines_per_chunk, tokens_per_chunk, enc,
                   buf, line_count, token_count, pc, out, encCalls>>

\* lines 112-114: the first meaning character; the completed chunk is yielded
\* and the generator is suspended until the next pull.  prev_chunk is a local
\* of the suspended generator; line 114 clears it first thing on resumption,
\* before anything reads it, and is folded into this step.
EmitPending_CountsFirst ==
    /\ AtPending
    /\ ~Absorbable(ch)
    /\ out' = Append(out, prev_chunk[1])
    /\ prev_chunk' = None
    /\ encCalls' = encCalls + 1
    /\ pc' = "resume"
    /\ UNCHANGED <<content, lines_per_chunk, tokens_per_chunk, enc,
                   buf, line_count, token_count, i>>

EmitPending_SkipsChar ==
    /\ AtPending
    /\ ~Absorbable(ch)
    /\ out' = Append(out, prev_chunk[1])
    /\ prev_chunk' = None
    /\ i' = i + 1
    /\ UNCHANGED <<content, lines_per_chunk, tokens_per_chunk, enc,
                   buf, line_count, token_count, pc, encCalls>>

EmitPending_KeepsPending ==
    /\ AtPending
    /\ ~Absorbable(ch)
    /\ out' = Append(out, prev_chunk[1])
    /\ pc' = "resume"
    /\ UNCHANGED <<content, lines_per_chunk, tokens_per_chunk, enc,
                   buf, line_count, token_count, prev_chunk, i, encCalls>>

EmitPending ==
    /\ AtPending
    /\ ~Absorbable(ch)
    /\ out' = Append(out, prev_chunk[1])
    /\ prev_chunk' = None
    /\ pc' = "resume"
    /\ UNCHANGED <<content, lines_per_chunk, tokens_per_chunk, enc,
                   buf, line_count, token_count, i, encCalls>>

\* lines 116-120: a blank line forces a flush and its newline is skipped
ParagraphBreak ==
    /\ AtBody
    /\ IsParagraphBreak(ch, i)
    /\ LET f == FlushCurrent(buf, line_count, token_count, prev_chunk)
       IN  /\ buf' = f.buf
           /\ line_count' = f.line_count
           /\ token_count' = f.token_count
           /\ prev_chunk' = f.prev_chunk
    /\ i' = i + 1
    /\ pc' = "scan"
    /\ UNCHANGED <<content, lines_per_chunk, tokens_per_chunk, enc, out, encCalls>>

\* lines 122-132: accumulate ch, count it, flush at a safe boundary
Accumulate ==
    /\ AtBody
    /\ ~IsParagraphBreak(ch, i)
    /\ LET b  == Append(buf, ch)
           lc == IF ch = "\n" THEN line_count + 1 ELSE line_count
           tc == token_count + enc[ch]
           f  == IF ReadyToBreak(lc, tc, ch)
                 THEN FlushCurrent(b, lc, tc, prev_chunk)
                 ELSE [buf |-> b, line_count |-> lc, token_count |-> tc,
                       prev_chunk |-> prev_chunk]
       IN  /\ buf' = f.buf
           /\ line_count' = f.line_count
           /\ token_count' = f.token_count
           /\ prev_chunk' = f.prev_chunk
    /\ encCalls' = encCalls + 1
    /\ i' = i + 1
    /\ pc' = "scan"
    /\ UNCHANGED <<content, lines_per_chunk, tokens_per_chunk, enc, out>>

\* lines 123-126 when enc.encode(ch) raises: ch is already in buf and the
\* line is already counted; the exception leaves the generator, which is
\* finished from then on.
EncodeFails_AtLoopTop ==
    /\ AtBody \/ AtPending
    /\ ~IsParagraphBreak(ch, i)
    /\ buf' = Append(buf, ch)
    /\ line_count' = IF ch = "\n" THEN line_count + 1 ELSE line_count
    /\ encCalls' = encCalls + 1
    /\ pc' = "failed"
    /\ UNCHANGED <<content, lines_per_chunk, tokens_per_chunk, enc,
                   token_count, prev_chunk, i, out>>

EncodeFails ==
    /\ AtBody
    /\ ~IsParagraphBreak(ch, i)
    /\ buf' = Append(buf, ch)
    /\ line_count' = IF ch = "\n" THEN line_count + 1 ELSE line_count
    /\ encCalls' = encCalls + 1
    /\ pc' = "failed"
    /\ UNCHANGED <<content, lines_per_chunk, tokens_per_chunk, enc,
                   token_count, prev_chunk, i, out>>

\* lines 134-138: what is yielded after the loop, as a sequence of chunks
FinalChunks_AlwaysBuf(b, pv) == <<b>>

FinalChunks(b, pv) ==
    IF b # <<>>
    THEN <<IF pv = None THEN b ELSE pv[1] \o b>>
    ELSE IF pv # None THEN <<pv[1]>> ELSE <<>>

FinalEmit ==
    /\ pc = "scan"
    /\ ~(i < n)
    /\ out' = out \o FinalChunks(buf, prev_chunk)
    /\ pc' = "done"
    /\ UNCHANGED <<content, lines_per_chunk, tokens_per_chunk, enc,
                   buf, line_count, token_count, prev_chunk, i, encCalls>>

Next ==
    \/ Begin
    \/ Absorb
    \/ EmitPending
    \/ ParagraphBreak
    \/ Accumulate
    \/ FinalEmit

Spec == Init /\ [][Next]_vars

\* The consumer stops pulling while the generator is suspended (before the
\* first pull, or at the yield on line 113): the generator is closed at its
\* suspension point and none of its code runs again.
Abandon ==
    /\ pc \in {"start", "resume"}
    /\ pc' = "abandoned"
    /\ UNCHANGED <<content, lines_per_chunk, tokens_per_chunk, enc,
                   buf, line_count, token_count, prev_chunk, i, out, encCalls>>

\* Shorter inputs and thresholds of either sign, for the specifications with
\* a consumer that may stop, a failing token counter, or fairness.
InitShort ==
    /\ content \in SeqsUpTo(ShortLen)
    /\ lines_per_chunk \in MinThreshold..MaxLines
    /\ tokens_per_chunk \in MinThreshold..MaxTokens
    /\ enc \in Encodings
    /\ buf = <<>>
    /\ line_count = 0
    /\ token_count = 0
    /\ prev_chunk = None
    /\ i = 0
    /\ pc = "start"
    /\ out = <<>>
    /\ encCalls = 0

NextPull ==
    \/ Begin
    \/ Absorb
    \/ EmitPending
    \/ ParagraphBreak
    \/ Accumulate
    \/ FinalEmit
    \/ Abandon

SpecPull == InitShort /\ [][NextPull]_vars

SpecShort == InitShort /\ [][Next]_vars

\* The inputs of the specification with fairness.
InitLive ==
    /\ content \in SeqsUpTo(LiveLen)
    /\ lines_per_chunk \in MinThreshold..MaxLines
    /\ tokens_per_chunk \in MinThreshold..MaxTokens
    /\ enc \in Encodings
    /\ buf = <<>>
    /\ line_count = 0
    /\ token_count = 0
    /\ prev_chunk = None
    /\ i = 0
    /\ pc = "start"
    /\ out = <<>>
    /\ encCalls = 0

\* The consumer keeps pulling: some step of the scan is always taken while
\* one is possible.
SpecLive == InitLive /\ [][Next]_vars /\ WF_vars(Next)

NextFail ==
    \/ Begin
    \/ Absorb
    \/ EmitPending
    \/ ParagraphBreak
    \/ Accumulate
    \/ FinalEmit
    \/ EncodeFails

SpecFail == InitShort /\ [][NextFail]_vars

TypeOK ==
    /\ i \in 0..n
    /\ pc \in {"start", "scan", "resume", "done", "abandoned", "failed"}
    /\ Len(prev_chunk) <= 1
    /\ encCalls \in 0..n

(* ----------------------- the documented example ------------------------ *)

\* The first example of the docstring (lines 60-61):
\* "Hello!\nHello!\n\n!\nHi!\n"
ExampleText ==
    <<"H", "e", "l", "l", "o", "!", "\n",
      "H", "e", "l", "l", "o", "!", "\n",
      "\n", "!", "\n",
      "H", "i", "!", "\n">>

ExampleChars == {"H", "e", "l", "o", "i", "!", "\n"}

\* Encodings of the example's characters: every character counts one token,
\* or two for the characters of a chosen set.
ExampleEncodings ==
    { [c \in ExampleChars |-> IF c \in W THEN 2 ELSE 1] : W \in SUBSET ExampleChars }

\* chunk(ExampleText, ...) with the documented thresholds (2, 2) and the
\* neighbouring ones.
InitExample ==
    /\ content = ExampleText
    /\ lines_per_chunk \in 1..(MaxLines + 1)
    /\ tokens_per_chunk \in 1..MaxTokens
    /\ enc \in ExampleEncodings
    /\ buf = <<>>
    /\ line_count = 0
    /\ token_count = 0
    /\ prev_chunk = None
    /\ i = 0
    /\ pc = "start"
    /\ out = <<>>
    /\ encCalls = 0

SpecExample == InitExample /\ [][Next]_vars

(* ------------------------- properties: helpers ------------------------- *)

Positive == lines_per_chunk > 0 /\ tokens_per_chunk > 0

\* positions (1-based) of the newlines whose preceding character is a newline
BlankNL(s) == {k \in 2..Len(s) : s[k] = "\n" /\ s[k - 1] = "\n"}

\* s with the characters at the positions in D deleted, order preserved
RECURSIVE DeleteFrom(_, _, _)
DeleteFrom(s, D, k) ==
    IF k > Len(s) THEN <<>>
    ELSE (IF k \in D THEN <<>> ELSE <<s[k]>>) \o DeleteFrom(s, D, k + 1)

Delete(s, D) == DeleteFrom(s, D, 1)

Prefix(s, k) == SubSeq(s, 1, k)

\* the characters of s after the first k are all NOT-meaning characters
OnlyAbsorbableAfter(s, k) == \A j \in (k + 1)..Len(s) : ~IsMeaning(s[j])

\* s meets both thresholds and ends in a safe break-point
MeetsBothAtSafe(s) ==
    /\ s # <<>>
    /\ CountNL(s) >= lines_per_chunk
    /\ TokenSum(s) >= tokens_per_chunk
    /\ (s[Len(s)] = "\n" \/ s[Len(s)] \in YIELD_LATER_CHARS)

(* ------------------------------- claims -------------------------------- *)

\* C1: for every input and positive thresholds, the concatenation of the
\* emitted chunks is the input exactly, blank lines included.
C1_ExactRoundTrip ==
    (pc = "done" /\ Positive) => Join(out) = content

\* C2: the concatenation of the emitted chunks is the input with some
\* characters deleted, each of them a newline that follows a newline; an
\* input without two consecutive newlines is reproduced exactly.
C2_OnlyBlankNewlinesLost ==
    (pc = "done" /\ Positive) =>
        /\ \E D \in SUBSET BlankNL(content) : Join(out) = Delete(content, D)
        /\ BlankNL(content) = {} => Join(out) = content

C2_Witness ==
    /\ pc = "done"
    /\ Positive
    /\ Len(out) >= 2
    /\ Join(out) # content
    /\ \E k \in 1..Len(out) : \E j \in 2..Len(out[k]) :
           out[k][j] = "\n" /\ out[k][j - 1] = "\n"

\* C3: every newline that follows a newline is discarded, whatever the
\* scanner state when it is read: the output is the input without them
\* (stated for positive thresholds, where it already fails).
C3_BlankNewlinesDiscarded ==
    (pc = "done" /\ Positive) => Join(out) = Delete(content, BlankNL(content))

\* C4: every emitted chunk except the last has at least lines_per_chunk
\* newlines and at least tokens_per_chunk tokens, chunks cut by a blank line
\* included.
C4_BudgetLaw ==
    (pc = "done" /\ Positive) =>
        \A k \in 1..(Len(out) - 1) :
            /\ CountNL(out[k]) >= lines_per_chunk
            /\ TokenSum(out[k]) >= tokens_per_chunk

\* C5: every emitted chunk other than the first begins with a meaning
\* character (not whitespace, not in YIELD_LATER_CHARS).
C5_NonMeaningStart ==
    Positive => \A k \in 2..Len(out) : out[k] # <<>> /\ IsMeaning(out[k][1])

\* a second chunk after a blank-line forced flush (the first chunk misses a
\* threshold) and a third after a threshold flush
C5_Witness ==
    /\ pc = "done"
    /\ Positive
    /\ Len(out) >= 3
    /\ (CountNL(out[1]) < lines_per_chunk \/ TokenSum(out[1]) < tokens_per_chunk)
    /\ MeetsBothAtSafe(out[2])

\* C6: no emitted chunk other than the first begins with whitespace or with
\* a punctuation character (Unicode category P*), the ASCII period included.
C6_NoPunctuationStart ==
    Positive => \A k \in 2..Len(out) : out[k] # <<>> /\ IsMeaningfulChar(out[k][1])

\* C7: no emitted chunk is the empty string, for any input and thresholds.
C7_NoEmptyChunks ==
    \A k \in 1..Len(out) : out[k] # <<>>

\* an input made only of newlines with consecutive blank lines, fully chunked
C7_Witness ==
    /\ pc = "done"
    /\ Positive
    /\ Len(content) >= 4
    /\ \A k \in 1..Len(content) : content[k] = "\n"
    /\ out # <<>>

NoBlankLine == BlankNL(content) = {}
NoSafeHit == \A k \in 1..Len(content) : ~MeetsBothAtSafe(Prefix(content, k))

\* C9: an input without blank line in which no safe break-point is reached
\* with both thresholds met is emitted as exactly one chunk, the whole input.
C9_SingleChunk ==
    (pc = "done" /\ NoBlankLine /\ NoSafeHit) => out = <<content>>

\* C9 (amended): the same for every non-empty input.
C9_SingleChunkNonEmpty ==
    (pc = "done" /\ content # <<>> /\ NoBlankLine /\ NoSafeHit) => out = <<content>>

\* a full-length input with newlines and punctuation that stays one chunk
C9_Witness ==
    /\ pc = "done"
    /\ Positive
    /\ Len(content) = MaxLen
    /\ NoBlankLine /\ NoSafeHit
    /\ \E k \in 1..Len(content) : content[k] = "\n"
    /\ \E k \in 1..Len(content) : content[k] \in YIELD_LATER_CHARS
    /\ out = <<content>>

\* C10: the empty input yields no chunk and never calls the token counter.
C10_EmptyInput ==
    content = <<>> => (out = <<>> /\ encCalls = 0)

C10_Witness ==
    content = <<>> /\ pc = "done"

\* C11: for the documented example with thresholds 2 and 2, exactly two
\* chunks are emitted, the first is exactly "Hello!\nHello!\n", and the stray
\* "!" after the blank line is carried in the second chunk with "Hi!\n".
C11_DocumentedExample ==
    (pc = "done" /\ content = ExampleText
        /\ lines_per_chunk = 2 /\ tokens_per_chunk = 2) =>
        /\ Len(out) = 2
        /\ out[1] = SubSeq(ExampleText, 1, 14)
        /\ \E j \in 1..Len(out[2]) : out[2][j] = "!" /\ j + 1 <= Len(out[2]) /\ out[2][j + 1] = "\n"
                                     /\ SubSeq(out[2], j + 2, Len(out[2])) = SubSeq(ExampleText, 18, 21)

\* the length of the completed chunk awaiting emission, 0 when there is none
PendingLen(pv) == IF pv = None THEN 0 ELSE Len(pv[1])

\* C12: during a complete scan the token counter is invoked exactly once for
\* every input character, absorbed characters and blank-line newlines
\* included (stated for positive thresholds, where it already fails).
C12_OncePerCharacter ==
    (pc = "done" /\ Positive) => encCalls = n

\* C12 (amended): a step that reads a character invokes the token counter
\* once when the character is accumulated into the buffer, and not at all
\* when it is absorbed into the pending chunk or is a skipped blank-line
\* newline; no other step invokes it.
C12_CountedOnlyWhenAccumulated ==
    [][ /\ i' = i => encCalls' = encCalls
        /\ i' = i + 1 =>
             LET absorbed == prev_chunk # None /\ prev_chunk' # None
                             /\ prev_chunk' # prev_chunk
                 skipped  == /\ i > 0 /\ content[i] = "\n" /\ content[i + 1] = "\n"
                             /\ Len(buf') + PendingLen(prev_chunk')
                                  = Len(buf) + PendingLen(prev_chunk)
             IN  encCalls' = encCalls + (IF absorbed \/ skipped THEN 0 ELSE 1)
      ]_vars

\* a finished scan with a skipped newline, absorbed characters and counted ones
C12_Witness ==
    /\ pc = "done"
    /\ Positive
    /\ Len(out) >= 2
    /\ Len(Join(out)) < n
    /\ encCalls > 0
    /\ encCalls < Len(Join(out))

\* C13: when a chunk is handed over the scanner stands on the first meaning
\* character after that chunk (read, not yet counted) or at the end of the
\* input, the next chunk has not been started, and a consumer that stops
\* leaves the scanner where the last hand-over put it.
C13_DemandDriven ==
    /\ pc \in {"resume", "abandoned"} =>
          /\ buf = <<>> /\ line_count = 0 /\ token_count = 0
          /\ encCalls <= Len(Join(out))
          /\ \E D \in SUBSET BlankNL(Prefix(content, i)) :
                 Join(out) = Delete(Prefix(content, i), D)
          /\ out = <<>> => (i = 0 /\ encCalls = 0)
          /\ out # <<>> => (i < n /\ IsMeaning(content[i + 1]))
    /\ pc = "done" => i = n

\* the consumer stopped after one chunk that had absorbed a character
C13_Witness ==
    /\ pc = "abandoned"
    /\ Positive
    /\ Len(out) = 1
    /\ encCalls < i
    /\ i + 1 < n

\* C14: when the token counter fails the scan is over: no completed chunk is
\* pending un-emitted (the yielded chunks and the buffer account for the
\* whole input up to the failing character), and no chunk is produced
\* afterwards.
C14_FailureAborts ==
    /\ [](pc = "failed" =>
            /\ prev_chunk = None
            /\ buf # <<>> /\ buf[Len(buf)] = content[i + 1]
            /\ \E D \in SUBSET BlankNL(Prefix(content, i + 1)) :
                   Join(out) \o buf = Delete(Prefix(content, i + 1), D))
    /\ [][pc = "failed" => (pc' = "failed" /\ out' = out)]_vars

\* the counter fails on the first character of a later chunk, right after
\* the chunk before it was delivered
C14_Witness ==
    /\ pc = "failed"
    /\ Positive
    /\ out # <<>>
    /\ Len(buf) = 1

\* C15: with a pending chunk and an empty buffer, reading a whitespace or
\* YIELD_LATER_CHARS character only appends it to the pending chunk and
\* advances the position: buf, line_count and token_count stay empty/zero,
\* nothing is flushed or emitted, and the token counter is not involved.
C15_AbsorptionFrame ==
    [][ (/\ pc = "scan" /\ i < n
         /\ prev_chunk # None /\ buf = <<>>
         /\ ~IsMeaning(content[i + 1]))
        => /\ prev_chunk' = Some(Append(prev_chunk[1], content[i + 1]))
           /\ i' = i + 1
           /\ buf' = <<>> /\ line_count' = 0 /\ token_count' = 0
           /\ line_count = 0 /\ token_count = 0
           /\ out' = out
           /\ encCalls' = encCalls
           /\ pc' = "scan"
      ]_vars

\* a pending chunk that met both thresholds has absorbed a newline and a
\* YIELD_LATER_CHARS character, and the next chunk starts from zero
C15_Witness ==
    /\ Positive
    /\ pc = "scan"
    /\ prev_chunk # None /\ buf = <<>>
    /\ \E j \in 1..(Len(prev_chunk[1]) - 2) :
          /\ MeetsBothAtSafe(Prefix(prev_chunk[1], j))
          /\ prev_chunk[1][Len(prev_chunk[1]) - 1] = "\n"
          /\ prev_chunk[1][Len(prev_chunk[1])] \in YIELD_LATER_CHARS
    /\ line_count = 0 /\ token_count = 0

\* C16: every scan step advances the position by exactly one character,
\* emitting a chunk does not move it, and a consumer that keeps pulling
\* exhausts the generator with the position at len(input) and at most
\* len(input) chunks emitted.
C16_Termination ==
    /\ [][ /\ (pc \in {"scan", "resume"} /\ pc' = "scan") => i' = i + 1
           /\ out' # out => i' = i
           /\ i' \in {i, i + 1}
         ]_vars
    /\ [](Len(out) <= i)
    /\ <>(pc = "done" /\ i = n /\ Len(out) <= n)

\* a full-length input scanned to exhaustion in several chunks
C16_Witness ==
    /\ pc = "done"
    /\ i = n /\ n = LiveLen
    /\ Len(out) >= 2

NonPositive == lines_per_chunk <= 0 /\ tokens_per_chunk <= 0

\* a newline or a YIELD_LATER_CHARS character
IsSafeChar(c) == c = "\n" \/ c \in YIELD_LATER_CHARS

\* C17: with both thresholds zero or negative the scan runs without error and
\* the buffer is flushed at the first newline or YIELD_LATER_CHARS character
\* accumulated into each chunk: the buffer never holds such a character, and
\* in a completed chunk only NOT-meaning characters follow the first one.
C17_NonPositiveThresholds ==
    NonPositive =>
        /\ pc # "failed"
        /\ pc \in {"scan", "resume", "done"} =>
               \A j \in 1..Len(buf) : ~IsSafeChar(buf[j])
        /\ \A k \in 1..Len(out) : \A j \in 1..Len(out[k]) :
               IsSafeChar(out[k][j]) => OnlyAbsorbableAfter(out[k], j)
        /\ prev_chunk # None =>
               \E j \in 1..Len(prev_chunk[1]) :
                   /\ IsSafeChar(prev_chunk[1][j])
                   /\ \A h \in 1..(j - 1) : ~IsSafeChar(prev_chunk[1][h])
                   /\ OnlyAbsorbableAfter(prev_chunk[1], j)

\* the lowest thresholds: a finished scan whose first chunk was cut at its
\* first safe character, after two meaning characters
C17_Witness ==
    /\ NonPositive
    /\ lines_per_chunk = MinThreshold /\ tokens_per_chunk = MinThreshold
    /\ pc = "done"
    /\ Len(out) >= 2
    /\ Len(out[1]) >= 3
    /\ IsMeaning(out[1][1]) /\ IsMeaning(out[1][2]) /\ IsSafeChar(out[1][3])

\* C18: at the start of every scan step after the first character exactly
\* one of "a pending chunk is set" and "the buffer is non-empty" holds; a
\* pending chunk is never replaced, only extended by the character read; the
\* blank-line flush never finds the buffer empty; and the scan never ends
\* with both a pending chunk and a non-empty buffer.
C18_PendingXorBuffer ==
    /\ []( /\ (pc = "scan" /\ i >= 1) =>
                 ((prev_chunk # None) # (buf # <<>>))
           /\ (/\ pc = "resume" \/ (pc = "scan" /\ i < n /\ ~(prev_chunk # None /\ buf = <<>>))
               /\ i > 0 /\ content[i] = "\n" /\ content[i + 1] = "\n")
                 => buf # <<>>
           /\ (pc \in {"scan", "done"} /\ i = n) =>
                 ~(prev_chunk # None /\ buf # <<>>) )
    /\ [][ (prev_chunk # None /\ prev_chunk' # None /\ prev_chunk' # prev_chunk)
             => prev_chunk' = Some(Append(prev_chunk[1], content[i + 1])) ]_vars

\* a second chunk is pending after the first was emitted, and the scan of a
\* full-length input ends on it
C18_Witness ==
    /\ pc = "done"
    /\ n = MaxLen
    /\ Len(out) = 2
    /\ prev_chunk # None /\ buf = <<>>
    /\ out[2] = prev_chunk[1]

\* C19: every emitted chunk that is followed by another one ends with a
\* newline, another whitespace character or a YIELD_LATER_CHARS character, so
\* no chunk boundary separates two adjacent meaning characters.
C19_BoundaryAfterNonMeaning ==
    /\ \A k \in 1..(Len(out) - 1) :
           out[k] # <<>> /\ ~IsMeaning(out[k][Len(out[k])])
    /\ (pc = "resume" /\ out # <<>>) =>
           LET c == out[Len(out)]
           IN  c # <<>> /\ ~IsMeaning(c[Len(c)]) /\ IsMeaning(content[i + 1])

\* three chunks: one boundary after a newline, one after a deferred
\* punctuation character
C19_Witness ==
    /\ pc = "done"
    /\ Positive
    /\ Len(out) = 3
    /\ out[1][Len(out[1])] = "\n"
    /\ out[2][Len(out[2])] \in YIELD_LATER_CHARS

\* C20: at the end of every scan step line_count is the number of newlines
\* in the buffer and token_count the sum of the token counts of its
\* characters; both are zero whenever the buffer is empty.
C20_CountersMatchBuffer ==
    /\ line_count = CountNL(buf)
    /\ token_count = TokenSum(buf)
    /\ buf = <<>> => (line_count = 0 /\ token_count = 0)

\* a buffer refilled after a flush, holding a newline and a two-token letter
C20_Witness ==
    /\ pc = "scan"
    /\ out # <<>>
    /\ line_count >= 1
    /\ token_count > Len(buf)
    /\ Len(buf) >= 2
====
